---- MODULE Spec2Model ----
(***************************************************************************)
(* Model of mydetect.py: letterbox (resize + pad) and non_max_suppression. *)
(*                                                                         *)
(* Numbers.  Scores, confidences and thresholds are integers in units of   *)
(* 1/16 (16 is 1.0, 4 is 0.25); input scores are multiples of 4, so the    *)
(* product obj * cls is a whole number of sixteenths.  Box coordinates are *)
(* whole pixels and input widths and heights are even, so w / 2 is whole.  *)
(* On these values every float32 operation of the code is exact, and the   *)
(* model computes the same numbers with integers.                          *)
(*                                                                         *)
(* non_max_suppression is modelled with labels = () (its default) and with *)
(* merge = False (line 98 fixes it), so lines 107-113 and 154-160 never    *)
(* run.  torchvision.ops.nms is modelled as greedy suppression over a      *)
(* stable descending sort of the scores.  letterbox takes new_shape as a   *)
(* pair (lines 12-13 turn an int n into (n, n)); cv2.resize is modelled by *)
(* the size it returns and by its refusal of an empty size.                *)
(***************************************************************************)
EXTENDS Integers, Sequences, FiniteSets

VARIABLES
    prediction,   \* the caller's tensor: batch -> anchors -> row
    conf_thres, iou_thres, classes, agnostic, multi_label, max_det,
    pc,           \* "idle" | "call" | "loop" | "returned" | "error" | "lb"
    xc,           \* line 86: candidate mask, batch -> anchors -> BOOLEAN
    xi,           \* line 101: image index of the loop (1-based)
    output,       \* line 100: the list of per-image detections (<<>>: none yet)
    kept,         \* line 151: per image, x[i] before the max_det limit
    given,        \* the prediction tensor as the caller passed it to this call
    first,        \* what the previous call returned (for the image re-filtered)
    calls,        \* number of calls started
    nc,           \* line 85: prediction.shape[2] - 5
    lbArgs,       \* letterbox arguments
    lbRet         \* letterbox outcome

nmsVars == <<prediction, conf_thres, iou_thres, classes, agnostic, multi_label,
             max_det, pc, xc, xi, output, kept, given, first, calls, nc>>
lbVars == <<lbArgs, lbRet>>
vars == <<nmsVars, lbVars>>

\* Bounds of the model.
MaxRows == 2      \* batch size * anchors per image
MaxDim == 5       \* image and target edge lengths
MaxStride == 3

\* line 93
max_wh == 4096
\* line 94
max_nms == 30000

\* One (1.0) in score units.
One == 4 * 4

Max(a, b) == IF a >= b THEN a ELSE b
Min(a, b) == IF a <= b THEN a ELSE b
Range(s) == {s[k] : k \in 1..Len(s)}

\* s[m] for a boolean mask m (torch advanced indexing): the kept elements in order.
MaskSelect(s, m) ==
    LET F[k \in 0..Len(s)] ==
            IF k = 0 THEN <<>>
            ELSE IF m[k] THEN Append(F[k-1], s[k]) ELSE F[k-1]
    IN F[Len(s)]

\* Concatenation of a sequence of sequences.
Flatten(ss) ==
    LET F[k \in 0..Len(ss)] == IF k = 0 THEN <<>> ELSE F[k-1] \o ss[k]
    IN F[Len(ss)]

-----------------------------------------------------------------------------
(* Box geometry *)

\* lines 55-57
box_area(b) == (b[3] - b[1]) * (b[4] - b[2])

\* line 63: clamped overlap per axis, multiplied
box_inter(a, b) ==
    Max(0, Min(a[3], b[3]) - Max(a[1], b[1])) * Max(0, Min(a[4], b[4]) - Max(a[2], b[2]))

\* inter / (area1 + area2 - inter) > thr, as IEEE division decides it:
\* 0/0 is NaN (no comparison holds), p/0 is +inf for p > 0.
IoUGt(a, b, thr) ==
    LET inter == box_inter(a, b)
        union == box_area(a) + box_area(b) - inter
    IN IF union > 0 THEN inter * One > thr * union
       ELSE IF union = 0 THEN inter > 0
       ELSE inter * One < thr * union

\* A bug dropping the division by two.
xywh2xyxyNoHalf(b) == <<b[1] - b[3], b[2] - b[4], b[1] + b[3], b[2] + b[4]>>

\* lines 67-74, one box
xywh2xyxy(b) ==
    <<b[1] - b[3] \div 2, b[2] - b[4] \div 2, b[1] + b[3] \div 2, b[2] + b[4] \div 2>>

\* Inverse of xywh2xyxy (corner-form to center-form), used to feed detections back.
xyxy2xywh(b) == <<(b[1] + b[3]) \div 2, (b[2] + b[4]) \div 2, b[3] - b[1], b[4] - b[2]>>

-----------------------------------------------------------------------------
(* The steps of one loop iteration of non_max_suppression.  A tensor local  *)
(* to the loop is [rows, view]: view is TRUE while it shares the storage of *)
(* prediction[xi], and idx are the anchors of prediction[xi] its rows are.  *)

\* line 101: iterating a tensor yields views of it
ImageView(img) == [rows |-> img, idx |-> [k \in 1..Len(img) |-> k], view |-> TRUE]

\* A bug filtering without leaving the caller's storage.
IndexMaskView(x, m) ==
    [rows |-> MaskSelect(x.rows, m), idx |-> MaskSelect(x.idx, m), view |-> x.view]

\* line 104: x[xc[xi]], indexing by a boolean mask copies
IndexMask(x, m) ==
    [rows |-> MaskSelect(x.rows, m), idx |-> MaskSelect(x.idx, m), view |-> FALSE]

\* line 120: x[:, 5:] *= x[:, 4:5], in place
FuseRow(r) == [r EXCEPT !.cls = [j \in 1..Len(r.cls) |-> (r.cls[j] * r.obj) \div One]]
Fuse(x) == [x EXCEPT !.rows = [k \in 1..Len(x.rows) |-> FuseRow(x.rows[k])]]

\* What the in-place product leaves in the caller's image: written through a view.
WriteBack(img, x) ==
    IF x.view
    THEN [k \in 1..Len(img) |->
            IF \E p \in 1..Len(x.idx) : x.idx[p] = k
            THEN x.rows[CHOOSE p \in 1..Len(x.idx) : x.idx[p] = k]
            ELSE img[k]]
    ELSE img

Det(b, c, j) == [box |-> b, conf |-> c, cls |-> j]

\* lines 127-128: one detection per (anchor, class) with fused score > conf_thres,
\* in nonzero()'s row-major order.  Class indices are 0-based.
MultiLabel(rows, ct) ==
    Flatten([k \in 1..Len(rows) |->
        LET r == rows[k]
            all == [j \in 1..Len(r.cls) |-> Det(xywh2xyxy(r.box), r.cls[j], j - 1)]
        IN MaskSelect(all, [j \in 1..Len(r.cls) |-> r.cls[j] > ct])])

\* line 130: max(1) gives the best score and the first index reaching it
BestClass(r) ==
    LET best == CHOOSE v \in Range(r.cls) : \A u \in Range(r.cls) : u <= v
        j == CHOOSE j \in 1..Len(r.cls) :
                 r.cls[j] = best /\ \A u \in 1..(j-1) : r.cls[u] # best
    IN Det(xywh2xyxy(r.box), best, j - 1)

\* lines 130-131
SingleLabel(rows, ct) ==
    LET all == [k \in 1..Len(rows) |-> BestClass(rows[k])]
    IN MaskSelect(all, [k \in 1..Len(rows) |-> all[k].conf > ct])

\* lines 126-131
Label(rows, ml, ct) == IF ml THEN MultiLabel(rows, ct) ELSE SingleLabel(rows, ct)

\* lines 134-135: classes is <<>> for None, else <<set of class indices>>
ClassFilter(x, cl) ==
    IF cl = <<>> THEN x
    ELSE MaskSelect(x, [k \in 1..Len(x) |-> x[k].cls \in cl[1]])

\* Position p of the stable descending order of the scores holds Order(s)[p].
Order(s) ==
    LET rank(i) == 1 + Cardinality({j \in 1..Len(s) :
                          s[j] > s[i] \/ (s[j] = s[i] /\ j < i)})
    IN [p \in 1..Len(s) |-> CHOOSE i \in 1..Len(s) : rank(i) = p]

\* lines 145-146: keep the max_nms best when there are more
Truncate(x) ==
    IF Len(x) > max_nms
    THEN LET o == Order([k \in 1..Len(x) |-> x[k].conf])
         IN [p \in 1..max_nms |-> x[o[p]]]
    ELSE x

\* A bug reading the offset from column 4 (conf) instead of column 5 (cls).
ClassOffsetConf(d, ag) == d.conf * (IF ag THEN 0 ELSE max_wh)

\* line 149: c = x[:, 5:6] * (0 if agnostic else max_wh)
ClassOffset(d, ag) == d.cls * (IF ag THEN 0 ELSE max_wh)

\* line 150: boxes = x[:, :4] + c
OffsetBox(d, ag) ==
    LET c == ClassOffset(d, ag)
    IN <<d.box[1] + c, d.box[2] + c, d.box[3] + c, d.box[4] + c>>

\* torchvision.ops.nms (line 151): indices kept, best score first.  A box is
\* dropped when a kept box before it in the order has IoU > thr with it.
nms(boxes, scores, thr) ==
    LET o == Order(scores)
        K[p \in 0..Len(o)] ==
            IF p = 0 THEN <<>>
            ELSE IF \E q \in 1..Len(K[p-1]) : IoUGt(boxes[K[p-1][q]], boxes[o[p]], thr)
                 THEN K[p-1]
                 ELSE Append(K[p-1], o[p])
    IN K[Len(o)]

\* A bug in the limit: one detection too many.
LimitOffByOne(i, md) == IF Len(i) > md THEN SubSeq(i, 1, md + 1) ELSE i

\* lines 152-153
Limit(i, md) == IF Len(i) > md THEN SubSeq(i, 1, md) ELSE i

\* lines 148-151 on the detections matrix x: x[i]
Suppress(x, ag, thr) ==
    LET i == nms([k \in 1..Len(x) |-> OffsetBox(x[k], ag)],
                 [k \in 1..Len(x) |-> x[k].conf], thr)
    IN [p \in 1..Len(i) |-> x[i[p]]]

\* lines 104-146 without the in-place effect: the detections matrix of an image
\* as it enters suppression (<<>> when the image leaves the loop early).
Candidates(img, mask, ml, ct, cl) ==
    LET x == IndexMask(ImageView(img), mask)
    IN IF Len(x.rows) = 0 THEN <<>>
       ELSE Truncate(ClassFilter(Label(Fuse(x).rows, ml, ct), cl))

-----------------------------------------------------------------------------
(* Inputs *)

Row(b, o, c) == [box |-> b, obj |-> o, cls |-> c]

\* Center-form boxes: BoxA and BoxB overlap with IoU 12/20, BoxA and BoxC with
\* IoU 8/24, BoxD is BoxA moved by max_wh on both axes, BoxE has no extent.
BoxA == <<2, 2, 4, 4>>
BoxB == <<3, 2, 4, 4>>
BoxC == <<4, 2, 4, 4>>
BoxD == <<2 + max_wh, 2 + max_wh, 4, 4>>
BoxE == <<2, 2, 0, 0>>

\* Rows of a tensor with n classes.
Rows(n) ==
    IF n = 1
    THEN {Row(BoxA, 16, <<16>>), Row(BoxB, 16, <<8>>)}
    ELSE {Row(BoxA, 16, <<16, 0>>), Row(BoxB, 16, <<12, 0>>), Row(BoxA, 16, <<8, 16>>),
          Row(BoxD, 16, <<12, 0>>), Row(BoxB, 12, <<8, 0>>), Row(BoxA, 4, <<16, 16>>),
          Row(BoxE, 16, <<16, 0>>), Row(BoxC, 16, <<4, 12>>)}

\* Tensors [B, N, 5 + n] with B >= 1 and B * N <= MaxRows.
Tensors(n) ==
    UNION {[1..B -> [1..N -> Rows(n)]] :
              <<B, N>> \in {s \in (1..Max(MaxRows, 1)) \X (0..MaxRows) : s[1] * s[2] <= MaxRows}}

NoLetterbox == [state |-> "none", h |-> 0, w |-> 0, top |-> 0, bottom |-> 0,
                left |-> 0, right |-> 0, unpad |-> <<0, 0>>, dw2 |-> 0, dh2 |-> 0]
NoArgs == [h |-> 1, w |-> 1, new_shape |-> <<1, 1>>, auto |-> FALSE,
           scaleFill |-> FALSE, scaleup |-> FALSE, stride |-> 1]

InitNMS(confs, ious) ==
    /\ nc \in {1, 2}
    /\ prediction \in Tensors(nc)
    /\ conf_thres \in confs
    /\ iou_thres \in ious
    /\ classes \in {<<>>, <<{0}>>}
    /\ agnostic \in BOOLEAN
    /\ multi_label \in BOOLEAN
    /\ max_det \in {0, 1, 2}
    /\ pc = "call"
    /\ xc = <<>>
    /\ xi = 0
    /\ output = <<>>
    /\ kept = <<>>
    /\ given = prediction
    /\ first = <<>>
    /\ calls = 1
    /\ lbArgs = NoArgs
    /\ lbRet = NoLetterbox

-----------------------------------------------------------------------------
(* non_max_suppression *)

\* line 86: xc = prediction[..., 4] > conf_thres
Mask(pred, ct) == [b \in 1..Len(pred) |-> [k \in 1..Len(pred[b]) |-> pred[b][k].obj > ct]]

\* A bug checking only the confidence threshold.
ChecksConfOnly(ct, it) == 0 <= ct /\ ct <= One

\* lines 89-90
Checks(ct, it) == 0 <= ct /\ ct <= One /\ 0 <= it /\ it <= One

\* line 97: multi_label &= nc > 1
MultiLabelOn == multi_label /\ nc > 1

\* lines 117 and 144: continue goes on with the next image
ContinueBreaks(i) == Len(prediction) + 1
Continue(i) == i + 1

\* lines 85-90 when an assertion fails: AssertionError leaves the function
Reject ==
    /\ pc = "call"
    /\ ~Checks(conf_thres, iou_thres)
    /\ xc' = Mask(prediction, conf_thres)
    /\ pc' = "error"
    /\ UNCHANGED <<prediction, conf_thres, iou_thres, classes, agnostic, multi_label,
                   max_det, xi, output, kept, given, first, calls, nc, lbVars>>

\* lines 85-100
Enter ==
    /\ pc = "call"
    /\ Checks(conf_thres, iou_thres)
    /\ xc' = Mask(prediction, conf_thres)
    /\ output' = [b \in 1..Len(prediction) |-> <<>>]
    /\ kept' = [b \in 1..Len(prediction) |-> <<>>]
    /\ xi' = 1
    /\ pc' = "loop"
    /\ UNCHANGED <<prediction, conf_thres, iou_thres, classes, agnostic, multi_label,
                   max_det, given, first, calls, nc, lbVars>>

\* lines 101-162: one iteration of the loop over the images
LoopBody ==
    /\ pc = "loop"
    /\ xi <= Len(prediction)
    /\ LET x == IndexMask(ImageView(prediction[xi]), xc[xi])
           xf == Fuse(x)
           dets == ClassFilter(Label(xf.rows, MultiLabelOn, conf_thres), classes)
           sel == Suppress(Truncate(dets), agnostic, iou_thres)
       IN IF Len(x.rows) = 0
          THEN /\ xi' = Continue(xi)
               /\ UNCHANGED <<prediction, output, kept>>
          ELSE /\ prediction' = [prediction EXCEPT ![xi] = WriteBack(@, xf)]
               /\ IF Len(dets) = 0
                  THEN /\ xi' = Continue(xi)
                       /\ UNCHANGED <<output, kept>>
                  ELSE /\ kept' = [kept EXCEPT ![xi] = sel]
                       /\ output' = [output EXCEPT ![xi] = Limit(sel, max_det)]
                       /\ xi' = xi + 1
    /\ UNCHANGED <<conf_thres, iou_thres, classes, agnostic, multi_label, max_det,
                   pc, xc, given, first, calls, nc, lbVars>>

\* line 164
Return ==
    /\ pc = "loop"
    /\ xi > Len(prediction)
    /\ pc' = "returned"
    /\ UNCHANGED <<prediction, conf_thres, iou_thres, classes, agnostic, multi_label,
                   max_det, xc, xi, output, kept, given, first, calls, nc, lbVars>>

\* The caller calls again with the same tensor and configuration.
CallAgain ==
    /\ pc = "returned"
    /\ calls = 1
    /\ first' = output
    /\ calls' = 2
    /\ pc' = "call"
    /\ xc' = <<>>
    /\ xi' = 0
    /\ output' = <<>>
    /\ kept' = <<>>
    /\ UNCHANGED <<prediction, conf_thres, iou_thres, classes, agnostic, multi_label,
                   max_det, given, nc, lbVars>>

\* A detection as a candidate: same box in center-form, objectness 1, score 1
\* for its class.
ToCandidate(d) ==
    Row(xyxy2xywh(d.box), One, [j \in 1..nc |-> IF j - 1 = d.cls THEN One ELSE 0])

\* The caller feeds the detections of one image back as a batch of one image.
Refilter ==
    /\ pc = "returned"
    /\ calls = 1
    /\ \E k \in 1..Len(output) :
          /\ first' = output[k]
          /\ prediction' = <<[p \in 1..Len(output[k]) |-> ToCandidate(output[k][p])]>>
    /\ given' = prediction'
    /\ calls' = 2
    /\ pc' = "call"
    /\ xc' = <<>>
    /\ xi' = 0
    /\ output' = <<>>
    /\ kept' = <<>>
    /\ UNCHANGED <<conf_thres, iou_thres, classes, agnostic, multi_label, max_det,
                   nc, lbVars>>

ConfThresholds == {-4, 4, 8}
IouThresholds == {4, 8, 20}
Valid(S) == {t \in S : 0 <= t /\ t <= One}

Init == InitNMS(ConfThresholds, IouThresholds)
Next == Reject \/ Enter \/ LoopBody \/ Return
Spec == Init /\ [][Next]_vars

InitValid == InitNMS(Valid(ConfThresholds), Valid(IouThresholds))
NextTwice == Enter \/ LoopBody \/ Return \/ CallAgain
SpecTwice == InitValid /\ [][NextTwice]_vars

NextRefilter == Enter \/ LoopBody \/ Return \/ Refilter
SpecRefilter == InitValid /\ [][NextRefilter]_vars

-----------------------------------------------------------------------------
(* Properties of non_max_suppression *)

Returned == pc = "returned"
Images == 1..Len(output)

\* The detections matrix of image b of the tensor the caller gave.
Cands(b) == Candidates(given[b], Mask(given, conf_thres)[b], MultiLabelOn, conf_thres, classes)

\* C1: in every image's output, two distinct detections of the same class never
\* have IoU > iou_thres on their returned (un-offset) boxes.
SuppressionInvariant ==
    \A b \in Images : \A p, q \in 1..Len(output[b]) :
        (p # q /\ output[b][p].cls = output[b][q].cls)
            => ~IoUGt(output[b][p].box, output[b][q].box, iou_thres)

\* Two overlapping detections of class 1 (boxes offset by max_wh) are both
\* returned, their IoU being within the threshold.
SuppressionWitness ==
    /\ Returned
    /\ ~agnostic
    /\ \E b \in Images : \E p, q \in 1..Len(output[b]) :
          /\ p # q
          /\ output[b][p].cls = 1
          /\ output[b][q].cls = 1
          /\ box_inter(output[b][p].box, output[b][q].box) > 0

\* C2: every image's output holds at most max_det detections.
MaxDetInvariant == \A b \in Images : Len(output[b]) <= max_det

\* Suppression kept more than max_det detections and the output was cut.
MaxDetWitness ==
    /\ Returned
    /\ \E b \in Images : Len(kept[b]) > max_det /\ Len(output[b]) = max_det

\* Greedy NMS run on each class alone, on the un-offset boxes: the detections kept.
PerClassKept(x, thr) ==
    UNION {Range(Suppress(MaskSelect(x, [k \in 1..Len(x) |-> x[k].cls = c]), TRUE, thr)) :
              c \in {x[k].cls : k \in 1..Len(x)}}

\* C3: with agnostic = False the flat pass over offset boxes keeps what per-class
\* NMS keeps, for every candidate set.
PerClassEquivalence ==
    (Returned /\ ~agnostic) =>
        \A b \in Images : Range(kept[b]) = PerClassKept(Cands(b), iou_thres)

\* C4: with a threshold outside [0, 1] the call never gets past its checks: no
\* detection list exists, no image is visited, the tensor is as given.
RejectBeforeProcessing ==
    (conf_thres < 0 \/ conf_thres > One \/ iou_thres < 0 \/ iou_thres > One) =>
        /\ pc \in {"call", "error"}
        /\ output = <<>>
        /\ kept = <<>>
        /\ xi = 0
        /\ prediction = given

\* The call ended in the error with a valid conf_thres, an invalid iou_thres and
\* an image holding a candidate.
RejectWitness ==
    /\ pc = "error"
    /\ 0 <= conf_thres
    /\ conf_thres <= One
    /\ iou_thres > One
    /\ \E b \in 1..Len(prediction) : \E k \in 1..Len(prediction[b]) : xc[b][k]

\* What a batch holding image b alone returns for it.
Alone(b) ==
    LET x == Cands(b)
    IN IF Len(x) = 0 THEN <<>> ELSE Limit(Suppress(x, agnostic, iou_thres), max_det)

\* C5: the call returns one entry per image in batch order; an image with no
\* candidate left after gating, label selection or the class allowlist gets the
\* empty list, and every image gets what it would get alone.
EmptyImageIsolated ==
    Returned =>
        /\ Len(output) = Len(given)
        /\ \A b \in Images :
              /\ Len(Cands(b)) = 0 => output[b] = <<>>
              /\ output[b] = Alone(b)

\* An image that passes gating and loses its candidates later, before an image
\* that yields detections.
EmptyImageWitness ==
    /\ Returned
    /\ \E a, b \in Images :
          /\ a < b
          /\ \E k \in 1..Len(xc[a]) : xc[a][k]
          /\ output[a] = <<>>
          /\ output[b] # <<>>

BoxesAndClasses(x) == {<<x[k].box, x[k].cls>> : k \in 1..Len(x)}

\* C8: filtering the detections of an image again, as candidates of objectness 1
\* and score 1, returns the same boxes and classes, as many as before.
Idempotent ==
    (Returned /\ calls = 2) =>
        /\ Len(output[1]) = Len(first)
        /\ BoxesAndClasses(output[1]) = BoxesAndClasses(first)

\* The second pass had two overlapping detections of one class to filter.
IdempotentWitness ==
    /\ Returned
    /\ calls = 2
    /\ \E p, q \in 1..Len(first) :
          /\ p # q
          /\ first[p].cls = first[q].cls
          /\ box_inter(first[p].box, first[q].box) > 0
    /\ Len(output[1]) = 2

\* C9: a call leaves the caller's tensor as given, and a second call with the
\* same tensor and configuration returns what the first returned.
PureFunction ==
    /\ prediction = given
    /\ (Returned /\ calls = 2) => output = first

\* The second call returned detections of an image where the in-place product
\* changed a class score.
PureWitness ==
    /\ Returned
    /\ calls = 2
    /\ \E b \in Images :
          /\ output[b] # <<>>
          /\ \E k \in 1..Len(given[b]) : xc[b][k] /\ FuseRow(given[b][k]) # given[b][k]

NonIncreasing(x) == \A p, q \in 1..Len(x) : p < q => x[p].conf >= x[q].conf

\* C10: where suppression keeps at most max_det, every candidate missing from
\* the output has IoU > iou_thres with an emitted detection of equal or higher
\* confidence (of its class unless agnostic), the best candidate is emitted and
\* the output is in non-increasing confidence order.
RemovedWithCause ==
    Returned =>
        \A b \in Images : Len(kept[b]) <= max_det =>
            LET x == Cands(b)
                out == output[b]
            IN /\ \A k \in 1..Len(x) : x[k] \notin Range(out) =>
                     \E p \in 1..Len(out) :
                        /\ out[p].conf >= x[k].conf
                        /\ agnostic \/ out[p].cls = x[k].cls
                        /\ IoUGt(out[p].box, x[k].box, iou_thres)
               /\ \A k \in 1..Len(x) :
                     (\A u \in 1..Len(x) : x[u].conf <= x[k].conf) =>
                        \E p \in 1..Len(out) : out[p].conf = x[k].conf
               /\ NonIncreasing(out)

-----------------------------------------------------------------------------
(* letterbox.  An image is its shape; im.shape[:2] is (h, w) and new_shape  *)
(* is (height, width).  Python's round() is rounding to the nearest         *)
(* integer, halves to the even one.  r is the float64 nearest to a / b and  *)
(* shape * r is rounded to float64 again: where a * n / b is a whole number *)
(* plus one half, these two roundings decide which way round() goes, and    *)
(* RoundProduct computes them from the remainder of the division.           *)

\* round(n / d) for d > 0
Round(n, d) ==
    LET q == n \div d
        m == n % d
    IN IF 2 * m < d THEN q
       ELSE IF 2 * m > d THEN q + 1
       ELSE IF q % 2 = 0 THEN q ELSE q + 1

\* floor(log2(n / d)) for n, d > 0
RECURSIVE FloorLog2(_, _)
FloorLog2(n, d) ==
    IF n >= 2 * d THEN 1 + FloorLog2(n, 2 * d)
    ELSE IF n < d THEN FloorLog2(2 * n, d) - 1
    ELSE 0

RECURSIVE Pow2(_)
Pow2(g) == IF g <= 0 THEN 1 ELSE 2 * Pow2(g - 1)

\* 2^s mod m
RECURSIVE Pow2Mod(_, _)
Pow2Mod(s, m) == IF s <= 0 THEN 1 % m ELSE (2 * Pow2Mod(s - 1, m)) % m

\* line 16: the float64 a / b is m * 2^-s with s = 52 - floor(log2(a / b)) and m
\* the integer nearest to a * 2^s / b (halves to even).  QuotientError is
\* m * b - a * 2^s: the sign and size of the rounding error, in units 1 / (b * 2^s).
QuotientError(a, b) ==
    LET s == 52 - FloorLog2(a, b)
        rho == ((a % b) * Pow2Mod(s, b)) % b
        odd == ((a % (2 * b)) * Pow2Mod(s, 2 * b)) % (2 * b) >= b
    IN IF 2 * rho < b THEN 0 - rho
       ELSE IF 2 * rho > b THEN b - rho
       ELSE IF odd THEN b - rho ELSE 0 - rho

\* line 22: int(round(n * r)) for r the float64 of a / b.  Off a half the error
\* of r is too small to matter.  On a half k + 1/2 the float64 product is
\* k + 1/2 itself unless the error carried from r exceeds half the spacing of
\* the floats there; then it lies below or above and round() follows it.
RoundProduct(n, r) ==
    LET a == r[1]
        b == r[2]
        x == n * a
        eps == QuotientError(a, b)
        f == FloorLog2(a, b)
        e == FloorLog2(x, b)
        fine == IF eps < 0 /\ (IF e >= 0 THEN x = b * Pow2(e) ELSE x * Pow2(0 - e) = b)
                THEN 1 ELSE 0
        g == 1 + fine + f - e
        err == (IF eps < 0 THEN 0 - eps ELSE eps) * n
        k == ((2 * x) \div b - 1) \div 2
    IN IF (2 * x) % b # 0 \/ ((2 * x) \div b) % 2 = 0 \/ eps = 0
       THEN Round(x, b)
       ELSE IF (IF g >= 0 THEN err * Pow2(g) > b ELSE err > b * Pow2(0 - g))
            THEN (IF eps < 0 THEN k ELSE k + 1)
            ELSE Round(x, b)

\* lines 16-18: r as <<a, b>>, the float64 of a / b
Ratio(a) ==
    LET r == IF a.new_shape[1] * a.w <= a.new_shape[2] * a.h
             THEN <<a.new_shape[1], a.h>>
             ELSE <<a.new_shape[2], a.w>>
    IN IF ~a.scaleup /\ r[1] > r[2] THEN <<1, 1>> ELSE r

\* line 22: new_unpad as (width, height)
NewUnpad(a) ==
    LET r == Ratio(a) IN <<RoundProduct(a.w, r), RoundProduct(a.h, r)>>

\* lines 31-32 and 36-37 for a total padding p: round(p / 2 - 0.1), round(p / 2 + 0.1)
BorderBefore(p) == Round(5 * p - 1, 10)
BorderAfter(p) == Round(5 * p + 1, 10)

\* lines 11-39
letterbox(a) ==
    LET unpad0 == NewUnpad(a)
        dw0 == a.new_shape[2] - unpad0[1]
        dh0 == a.new_shape[1] - unpad0[2]
        dw == IF a.auto THEN dw0 % a.stride ELSE IF a.scaleFill THEN 0 ELSE dw0
        dh == IF a.auto THEN dh0 % a.stride ELSE IF a.scaleFill THEN 0 ELSE dh0
        new_unpad == IF ~a.auto /\ a.scaleFill
                     THEN <<a.new_shape[2], a.new_shape[1]>>
                     ELSE unpad0
        top == BorderBefore(dh)
        bottom == BorderAfter(dh)
        left == BorderBefore(dw)
        right == BorderAfter(dw)
    IN IF <<a.w, a.h>> # new_unpad /\ (new_unpad[1] <= 0 \/ new_unpad[2] <= 0)
       THEN \* line 35: cv2.resize refuses an empty size
            [NoLetterbox EXCEPT !.state = "raised", !.unpad = new_unpad]
       ELSE [state |-> "returned",
             h |-> new_unpad[2] + top + bottom,
             w |-> new_unpad[1] + left + right,
             top |-> top, bottom |-> bottom, left |-> left, right |-> right,
             unpad |-> new_unpad, dw2 |-> dw, dh2 |-> dh]

\* Edge lengths: the small ones, and an 11 x 22 image with the targets 8 and 15,
\* where 11 * (15 / 22) is 7.5 and the float64 product falls just below it.
Sides == (1..MaxDim) \cup {11, 22}
TargetSides == (1..MaxDim) \cup {8, 15}

InitLetterbox ==
    /\ lbArgs \in [h : Sides, w : Sides, new_shape : TargetSides \X TargetSides,
                   auto : BOOLEAN, scaleFill : BOOLEAN, scaleup : BOOLEAN,
                   stride : 1..MaxStride]
    /\ lbRet = NoLetterbox
    /\ pc = "lb"
    /\ prediction = <<>>
    /\ conf_thres = 4
    /\ iou_thres = 8
    /\ classes = <<>>
    /\ agnostic = FALSE
    /\ multi_label = FALSE
    /\ max_det = 1
    /\ xc = <<>>
    /\ xi = 0
    /\ output = <<>>
    /\ kept = <<>>
    /\ given = <<>>
    /\ first = <<>>
    /\ calls = 0
    /\ nc = 1

Letterbox ==
    /\ pc = "lb"
    /\ lbRet.state = "none"
    /\ lbRet' = letterbox(lbArgs)
    /\ UNCHANGED <<nmsVars, lbArgs>>

SpecLetterbox == InitLetterbox /\ [][Letterbox]_vars

\* C6: with auto = False letterbox returns, for every image and every target
\* size, an image of exactly the target height and width: unpadded size plus
\* borders equals new_shape on both axes.
ExactTargetSize ==
    (lbRet.state # "none" /\ ~lbArgs.auto) =>
        /\ lbRet.state = "returned"
        /\ lbRet.h = lbArgs.new_shape[1]
        /\ lbRet.w = lbArgs.new_shape[2]
        /\ lbRet.unpad[2] + lbRet.top + lbRet.bottom = lbArgs.new_shape[1]
        /\ lbRet.unpad[1] + lbRet.left + lbRet.right = lbArgs.new_shape[2]

\* C7: with auto = True the returned height and width are multiples of stride,
\* for every target size and stride.
StrideMultiple ==
    (lbRet.state = "returned" /\ lbArgs.auto) =>
        /\ lbRet.h % lbArgs.stride = 0
        /\ lbRet.w % lbArgs.stride = 0
====
